---- MODULE Spec2Model ----
(***************************************************************************)
(* Reward settlement, balance, post and report handling of the            *)
(* where_is_my_fluffy backend (FastAPI + SQLAlchemy on SQLite).           *)
(*                                                                         *)
(* Every request runs in its own SQLAlchemy session.  Each repository     *)
(* method commits on its own, so a request is a sequence of separately    *)
(* committed statements; the steps of different requests interleave.      *)
(* `async def` handlers run on the single event loop and interleave with  *)
(* each other only at an await; `def` handlers and `def` dependencies run *)
(* in the thread pool.                                                     *)
(***************************************************************************)
EXTENDS Integers, Sequences, FiniteSets, TLC

\* ------------------------------------------------------------------ bounds
NumUsers == 2
NumProcs == 2
MaxPosts == 1
MaxReports == 1
MaxTopUp == 2
MaxReward == 2
MaxBalance == 2
MaxSettleCalls == 2
MaxPhotos == 1
MaxNegative == 1
MaxDbPosts == 2
MaxDbReports == 2

Users == 1..NumUsers
Procs == 1..NumProcs
PostIds == 1..MaxPosts
ReportIds == 1..MaxReports
TopUpAmounts == 1..MaxTopUp
RewardPoints == 0..MaxReward

\* photos sent with a post and with a report
PostPhotoCounts == 1..MaxPhotos
ReportPhotoCounts == 1..MaxPhotos

\* the numbers of files a client may send with a post, the refused ones too
UploadCounts == 0..(MaxPhotos + 4)

\* the location sent with a report: none (Python's None) or a text
Locations == {"None", "", "somewhere"}

\* arguments given to the builder's setters when it is used on its own
BuilderPoints == (0 - MaxNegative)..MaxReward
BuilderPhotoCounts == 0..(MaxPhotos + 4)

\* outcome of a row lookup followed by a commit inside a repository method:
\* the row is found and the commit succeeds, the row is not found (the
\* method returns None), or the database raises
Outcomes == {"ok", "none", "raise"}
CommitOutcomes == {"ok", "raise"}

\* outcome of NotificationObserver.on_report_created: the notification is
\* committed; the insert fails and the failure is rolled back and swallowed;
\* the rollback in the handler fails too and the exception leaves the observer
ObserverOutcomes == {"ok", "fail", "raise"}

VARIABLES
    balance,        \* users.balance, per user id
    posts,          \* posts table: sequence of rows, id = index
    rewards,        \* rewards table: sequence of rows
    photos,         \* photos table: the post_id of each row
    reports,        \* reports table: sequence of rows, id = index
    report_photos,  \* report_photos table: the report_id of each row
    notifications,  \* notifications table: sequence of rows
    observers,      \* report_event_manager._observers
    invoked,        \* history: the observers called by the last notify_report_created
    builder,        \* a PostBuilder used on its own
    call,           \* the last call made on that builder and how it ended
    pc,             \* position of each request in its handler
    req,            \* arguments and local variables of each request in flight
    result,         \* the response that the last step gave, per request slot
    calls,          \* history: execute_reward_process calls started, per report
    okCount,        \* history: execute_reward_process calls that returned, per report
    paid,           \* history: points credited by execute_reward_process, per report
    asked,          \* history: the arguments of the request that the last step
                    \* answered at once (status of a post, notifications, photos)
    cleanup,        \* history: the files that the create request refused by the
                    \* last step had saved, and the files it deleted
    updated_count   \* history: updated_count in the response of the last step

vars == <<balance, posts, rewards, photos, reports, report_photos, notifications,
          observers, invoked, builder, call, pc, req, result, calls, okCount, paid,
          asked, cleanup, updated_count>>

\* the tables a post is stored in besides posts, and a report besides reports
postRows == <<rewards, photos>>
reportRows == <<report_photos, notifications, invoked>>
\* the PostBuilder that is used on its own
builderVars == <<builder, call>>
\* the history of the settlements
history == <<calls, okCount, paid>>
\* the history of the last step
lastStep == <<asked, cleanup, updated_count>>

NoReq == [op |-> "none", user_id |-> 0, post_id |-> 0, report_id |-> 0,
          amount |-> 0, balance |-> 0, status |-> "none", post_status |-> "none",
          photos |-> 0, location |-> "None"]

\* the last step answered no request at once, refused no create request and
\* gave no updated_count
NoAsk == NoReq
NoCleanup == [saved |-> 0, deleted |-> 0]
NoCount == 0 - 1
Quiet ==
    /\ asked' = NoAsk
    /\ cleanup' = NoCleanup
    /\ updated_count' = NoCount

\* a request slot is free before its first request and after each response
Rest(p) == pc[p] = "idle"

\* positions inside a stretch of an async handler that has no await: no other
\* coroutine of the event loop runs while some request is there
LoopBusy == {"cp_create", "cp_debit"}
LoopFree(p) == \A q \in Procs \ {p} : pc[q] \notin LoopBusy

\* ------------------------------------------------------- repository layer
\* UserRepository.update_user_balance: absolute write of new_balance
update_user_balance(bal, user_id, new_balance, outcome) ==
    IF outcome = "ok" THEN [bal EXCEPT ![user_id] = new_balance] ELSE bal

\* PostRepository.update_post_status without owner filter: the current status
\* is not looked at
update_post_status(ps, post_id, status, outcome) ==
    IF outcome = "ok" /\ post_id \in 1..Len(ps)
    THEN [ps EXCEPT ![post_id].status = status] ELSE ps

\* every row is written, whichever report is asked for
update_report_status_of_all(rs, report_id, status, outcome) ==
    IF outcome = "ok" /\ report_id \in 1..Len(rs)
    THEN [i \in 1..Len(rs) |-> [rs[i] EXCEPT !.status = status]] ELSE rs

\* ReportRepository.update_report_status: the current status is not looked at
update_report_status(rs, report_id, status, outcome) ==
    IF outcome = "ok" /\ report_id \in 1..Len(rs)
    THEN [rs EXCEPT ![report_id].status = status] ELSE rs

\* PostRepository.post_exists
post_exists(ps, post_id) == post_id \in 1..Len(ps)

\* every user passes for the owner
is_post_owner_of_any(ps, post_id, user_id) == post_id \in 1..Len(ps)

\* PostRepository.is_post_owner
is_post_owner(ps, post_id, user_id) ==
    post_id \in 1..Len(ps) /\ ps[post_id].owner_id = user_id

\* every unread notification is marked and counted, whichever its post
mark_all_notifications_as_read(ns, post_id) ==
    [rows |-> [i \in 1..Len(ns) |-> [ns[i] EXCEPT !.is_read = TRUE]],
     rowcount |-> Cardinality({i \in 1..Len(ns) : ~ns[i].is_read})]

\* NotificationRepository.mark_notifications_as_read_by_post_id: the UPDATE of
\* the unread rows of the post, and its rowcount
mark_notifications_as_read_by_post_id(ns, post_id) ==
    [rows |-> [i \in 1..Len(ns) |->
                  IF ns[i].post_id = post_id /\ ~ns[i].is_read
                  THEN [ns[i] EXCEPT !.is_read = TRUE] ELSE ns[i]],
     rowcount |-> Cardinality({i \in 1..Len(ns) :
                                  ns[i].post_id = post_id /\ ~ns[i].is_read})]

\* n rows that all hold the same value
RECURSIVE Rows(_, _)
Rows(n, row) == IF n <= 0 THEN <<>> ELSE <<row>> \o Rows(n - 1, row)

\* Post.rewards: the reward rows of a post
post_rewards(rw, post_id) == SelectSeq(rw, LAMBDA r : r.post_id = post_id)

\* ------------------------------------------------------------ PostBuilder
\* the amount kept as it is given
RewardAmountUnclamped(points) == points

\* PostBuilder.set_reward_points: max(0, points)
RewardAmount(points) == IF points > 0 THEN points ELSE 0

\* PostBuilder.set_reward_points: the reward data (None is the empty sequence),
\* always with status pending
set_reward_points(points) == <<[amount |-> RewardAmount(points), status |-> "pending"]>>

\* PostBuilder.get_reward_amount and get_reward_status
get_reward_amount(reward_data) ==
    IF reward_data # <<>> THEN reward_data[1].amount ELSE 0
get_reward_status(reward_data) ==
    IF reward_data # <<>> THEN reward_data[1].status ELSE "pending"

\* a reward row only for a reward of more than 0 points
reward_rows_if_positive(post_id, reward_data) ==
    IF get_reward_amount(reward_data) > 0
    THEN <<[post_id |-> post_id, amount |-> get_reward_amount(reward_data),
            status |-> get_reward_status(reward_data)]>>
    ELSE <<>>

\* PostRepository.create_post: always one reward row, taken from the getters
reward_rows(post_id, reward_data) ==
    <<[post_id |-> post_id, amount |-> get_reward_amount(reward_data),
       status |-> get_reward_status(reward_data)]>>

\* PostBuilder.__init__
NewBuilder == [owner_id |-> 0, photos |-> 0, reward_data |-> <<>>,
               status |-> "unset"]
NoCall == [method |-> "none", arg |-> 0, raised |-> FALSE]

\* ------------------------------------------------------------- observers
\* the NotificationObserver made when the registry is obs
NewObserver(obs) == [kind |-> "NotificationObserver", id |-> Len(obs) + 1]

\* ReportRepository._setup_observers: is a NotificationObserver registered
notification_observer_exists(obs) ==
    \E i \in 1..Len(obs) : obs[i].kind = "NotificationObserver"

\* ReportEventManager.add_observer: appended unless this observer is in the list
add_observer(obs, observer) ==
    IF \E i \in 1..Len(obs) : obs[i] = observer THEN obs ELSE Append(obs, observer)

\* ReportRepository._setup_observers when nothing runs between check and add
setup_observers(obs) ==
    IF notification_observer_exists(obs) THEN obs
    ELSE add_observer(obs, NewObserver(obs))

\* a loop that ends at the first observer that raises
RECURSIVE notify_until_raise(_, _, _)
notify_until_raise(obs, outcomes, i) ==
    IF i > Len(obs) THEN <<>>
    ELSE IF outcomes[i] = "raise" THEN <<obs[i].id>>
         ELSE <<obs[i].id>> \o notify_until_raise(obs, outcomes, i + 1)

\* ReportEventManager.notify_report_created, the loop from observer i on: each
\* observer is called inside its own try, the loop goes on after a failure
RECURSIVE notify_from(_, _, _)
notify_from(obs, outcomes, i) ==
    IF i > Len(obs) THEN <<>>
    ELSE <<obs[i].id>> \o notify_from(obs, outcomes, i + 1)

\* an exception of an observer leaves the loop and reaches the caller
notify_unguarded(obs, outcomes) ==
    [invoked |-> notify_until_raise(obs, outcomes, 1),
     raised |-> \E i \in 1..Len(obs) : outcomes[i] = "raise"]

\* ReportEventManager.notify_report_created: the observers called, and whether
\* an exception reaches the caller
notify_report_created(obs, outcomes) ==
    [invoked |-> notify_from(obs, outcomes, 1), raised |-> FALSE]

\* the notification rows committed by the observers that were called
RECURSIVE notification_rows(_, _, _, _, _)
notification_rows(obs, outcomes, called, post_id, report_id) ==
    IF called = <<>> THEN <<>>
    ELSE LET i == CHOOSE k \in 1..Len(obs) : obs[k].id = Head(called) IN
         (IF obs[i].kind = "NotificationObserver" /\ outcomes[i] = "ok"
          THEN <<[post_id |-> post_id, report_id |-> report_id,
                  is_read |-> FALSE]>> ELSE <<>>)
         \o notification_rows(obs, outcomes, Tail(called), post_id, report_id)

\* ------------------------------------------------------------ the requests
\* no request is given a response
NoResult == [q \in Procs |-> "none"]

\* the request enters its handler with the locals r and goes on at label
Begin(p, r, label) ==
    /\ req' = [req EXCEPT ![p] = r]
    /\ pc' = [pc EXCEPT ![p] = label]
    /\ result' = NoResult
    /\ Quiet

\* the handler returns or raises: the response is given, the locals are gone
Answer(p, detail) ==
    /\ pc' = [pc EXCEPT ![p] = "idle"]
    /\ result' = [NoResult EXCEPT ![p] = detail]
    /\ req' = [req EXCEPT ![p] = NoReq]

\* a response of a request that has its arguments in req
Respond(p, detail) ==
    /\ Answer(p, detail)
    /\ Quiet

\* a create request is refused with `saved` files on the disk, of which it
\* deleted `deleted`
Refuse(p, detail, saved, deleted) ==
    /\ Answer(p, detail)
    /\ cleanup' = [saved |-> saved, deleted |-> deleted]
    /\ asked' = NoAsk
    /\ updated_count' = NoCount

\* the request with the arguments r is answered by its first step
AnswerAtOnce(p, detail, r) ==
    /\ Answer(p, detail)
    /\ asked' = r
    /\ cleanup' = NoCleanup
    /\ updated_count' = NoCount

Init ==
    /\ balance = [u \in Users |-> 0]
    /\ posts = <<>>
    /\ rewards = <<>>
    /\ photos = <<>>
    /\ reports = <<>>
    /\ report_photos = <<>>
    /\ notifications = <<>>
    /\ observers = <<>>
    /\ invoked = <<>>
    /\ builder = NewBuilder
    /\ call = NoCall
    /\ pc = [p \in Procs |-> "idle"]
    /\ req = [p \in Procs |-> NoReq]
    /\ result = NoResult
    /\ calls = [r \in ReportIds |-> 0]
    /\ okCount = [r \in ReportIds |-> 0]
    /\ paid = [r \in ReportIds |-> 0]
    /\ asked = NoAsk
    /\ cleanup = NoCleanup
    /\ updated_count = NoCount

\* ------------------------------------------------ UserService.top_up_balance
\* get_user_by_id
TopUpRead(p) ==
    /\ Rest(p)
    /\ \E user_id \in Users, amount \in TopUpAmounts :
        /\ balance[user_id] + amount <= MaxBalance
        /\ Begin(p, [NoReq EXCEPT !.op = "top_up_balance", !.user_id = user_id,
                                  !.amount = amount, !.balance = balance[user_id]],
                 "tu_write")
    /\ UNCHANGED <<balance, posts, postRows, reports, reportRows, observers,
                   builderVars, history>>

\* new_balance = user.balance + amount; update_user_balance
TopUpWrite(p) ==
    /\ pc[p] = "tu_write"
    /\ \E outcome \in Outcomes :
        LET new_balance == req[p].balance + req[p].amount IN
        /\ balance' = update_user_balance(balance, req[p].user_id, new_balance, outcome)
        /\ Respond(p, CASE outcome = "ok" -> "ok"
                     [] outcome = "none" -> "Failed to update balance"
                     [] OTHER -> "Error updating balance")
    /\ UNCHANGED <<posts, postRows, reports, reportRows, observers,
                   builderVars, history>>

\* -------------------------------------------------- PostService.create_post
\* a reward is refused only when it exceeds the balance by more than one point
InsufficientBalanceOffByOne(reward_amount, user_balance) ==
    reward_amount > 0 /\ user_balance + 1 < reward_amount

\* the balance is looked at for a positive reward only
InsufficientBalance(reward_amount, user_balance) ==
    reward_amount > 0 /\ user_balance < reward_amount

\* more than five files are too many
TooManyPhotosOverFive(n) == n > 5

\* FileUploadManager.save_multiple_files: the number of files is looked at
\* before any file is saved
TooFewPhotos(n) == n < 1
TooManyPhotos(n) == n > 4

\* Step 1, the uploads of a request that sends one of `counts` files, and
\* after them Step 2, the balance check
CreatePostWith(p, counts) ==
    /\ Rest(p)
    /\ LoopFree(p)
    /\ Len(posts) < MaxPosts
    /\ \E owner_id \in Users, reward_points \in RewardPoints, n \in counts :
        LET r == [NoReq EXCEPT !.op = "create_post", !.user_id = owner_id,
                               !.amount = reward_points, !.photos = n] IN
        IF TooFewPhotos(n)
        THEN AnswerAtOnce(p, "At least 1 photo is required", r)
        ELSE IF TooManyPhotos(n)
        THEN AnswerAtOnce(p, "Maximum 4 photos allowed", r)
        ELSE IF InsufficientBalance(reward_points, balance[owner_id])
        THEN Refuse(p, "Insufficient balance", n, 0)
        ELSE Begin(p, [r EXCEPT !.balance = IF reward_points > 0
                                             THEN balance[owner_id] ELSE 0],
                   "cp_create")
    /\ observers' = setup_observers(observers)
    /\ UNCHANGED <<balance, posts, postRows, reports, reportRows, builderVars, history>>

\* a create_post with a number of photos that is accepted
CPCheck(p) == CreatePostWith(p, PostPhotoCounts)

\* a create_post with any number of photos
CPCheckAnyPhotos(p) == CreatePostWith(p, UploadCounts)

\* the post row that was flushed stays in the table when the commit fails
CPCreateNoRollback(p) ==
    /\ pc[p] = "cp_create"
    /\ \E outcome \in CommitOutcomes :
        IF outcome = "ok"
        THEN LET post_id == Len(posts) + 1 IN
             /\ posts' = Append(posts, [owner_id |-> req[p].user_id, status |-> "lost"])
             /\ photos' = photos \o Rows(req[p].photos, post_id)
             /\ rewards' = rewards \o reward_rows(post_id, set_reward_points(req[p].amount))
             /\ IF req[p].amount > 0
                THEN /\ req' = [req EXCEPT ![p].balance = balance[req[p].user_id],
                                           ![p].post_id = post_id]
                     /\ pc' = [pc EXCEPT ![p] = "cp_debit"]
                     /\ result' = NoResult
                     /\ Quiet
                ELSE Respond(p, "ok")
        ELSE /\ Refuse(p, "Error creating post", req[p].photos, req[p].photos)
             /\ posts' = Append(posts, [owner_id |-> req[p].user_id, status |-> "lost"])
             /\ UNCHANGED postRows
    /\ UNCHANGED <<balance, reports, reportRows, observers, builderVars, history>>

\* Steps 3 and 4: PostRepository.create_post commits Post, Photos and Reward;
\* the commit expires `user`, which is read again from the database
CPCreate(p) ==
    /\ pc[p] = "cp_create"
    /\ \E outcome \in CommitOutcomes :
        IF outcome = "ok"
        THEN LET post_id == Len(posts) + 1 IN
             /\ posts' = Append(posts, [owner_id |-> req[p].user_id, status |-> "lost"])
             /\ photos' = photos \o Rows(req[p].photos, post_id)
             /\ rewards' = rewards \o reward_rows(post_id, set_reward_points(req[p].amount))
             /\ IF req[p].amount > 0
                THEN /\ req' = [req EXCEPT ![p].balance = balance[req[p].user_id],
                                           ![p].post_id = post_id]
                     /\ pc' = [pc EXCEPT ![p] = "cp_debit"]
                     /\ result' = NoResult
                     /\ Quiet
                ELSE Respond(p, "ok")
        ELSE /\ Refuse(p, "Error creating post", req[p].photos, req[p].photos)
             /\ UNCHANGED <<posts, postRows>>
    /\ UNCHANGED <<balance, reports, reportRows, observers, builderVars, history>>

\* the balance written back as it was read
CPDebitNothing(p) ==
    /\ pc[p] = "cp_debit"
    /\ \E outcome \in Outcomes :
        LET new_balance == req[p].balance IN
        /\ balance' = update_user_balance(balance, req[p].user_id, new_balance, outcome)
        /\ CASE outcome = "ok" -> Respond(p, "ok")
             [] outcome = "none" ->
                    Refuse(p, "Post created but failed to update balance",
                           req[p].photos, 0)
             [] OTHER -> Refuse(p, "Error creating post", req[p].photos, req[p].photos)
    /\ UNCHANGED <<posts, postRows, reports, reportRows, observers,
                   builderVars, history>>

\* Step 5: new_balance = user.balance - reward_amount; update_user_balance
CPDebit(p) ==
    /\ pc[p] = "cp_debit"
    /\ \E outcome \in Outcomes :
        LET new_balance == req[p].balance - req[p].amount IN
        /\ balance' = update_user_balance(balance, req[p].user_id, new_balance, outcome)
        /\ CASE outcome = "ok" -> Respond(p, "ok")
             [] outcome = "none" ->
                    Refuse(p, "Post created but failed to update balance",
                           req[p].photos, 0)
             [] OTHER -> Refuse(p, "Error creating post", req[p].photos, req[p].photos)
    /\ UNCHANGED <<posts, postRows, reports, reportRows, observers,
                   builderVars, history>>

\* ------------------------------- PostService.mark_post_as_found / close_post
\* post_exists, is_post_owner, then PostRepository.update_post_status: the
\* service runs to its response without an await
SetPostStatus(p, op, status, forbidden, failed, error) ==
    /\ Rest(p)
    /\ LoopFree(p)
    /\ \E post_id \in PostIds, current_user_id \in Users :
        LET r == [NoReq EXCEPT !.op = op, !.user_id = current_user_id,
                               !.post_id = post_id] IN
        IF ~post_exists(posts, post_id)
        THEN /\ AnswerAtOnce(p, "Post not found", r)
             /\ UNCHANGED posts
        ELSE IF ~is_post_owner(posts, post_id, current_user_id)
             THEN /\ AnswerAtOnce(p, forbidden, r)
                  /\ UNCHANGED posts
             ELSE \E outcome \in Outcomes :
                  /\ posts' = update_post_status(posts, post_id, status, outcome)
                  /\ AnswerAtOnce(p, CASE outcome = "ok" -> "ok"
                                        [] outcome = "none" -> failed
                                        [] OTHER -> error, r)
    /\ observers' = setup_observers(observers)
    /\ UNCHANGED <<balance, postRows, reports, reportRows, builderVars, history>>

MarkPostAsFound(p) ==
    SetPostStatus(p, "mark_post_as_found", "found", "You can only update your own posts",
                  "Failed to update post status", "Error updating post")

ClosePost(p) ==
    SetPostStatus(p, "close_post", "closed", "You can only close your own posts",
                  "Failed to close post", "Error closing post")

\* ---------------------------------------------- ReportService.create_report
\* only a closed post is refused
PostNotActiveClosedOnly(status) == status = "closed"

\* post.status in [PostStatus.closed, PostStatus.found]
PostNotActive(status) == status \in {"closed", "found"}

\* Steps 1 and 2: the post must exist and must not be closed or found; the
\* handler then awaits the uploads of the photos
CRCheck(p) ==
    /\ Rest(p)
    /\ LoopFree(p)
    /\ \E post_id \in PostIds, reporter_id \in Users, n \in ReportPhotoCounts,
          location \in Locations :
        IF post_id > Len(posts)
        THEN Respond(p, "Post not found")
        ELSE IF PostNotActive(posts[post_id].status)
             THEN Respond(p, "Post not active")
             ELSE /\ Len(reports) + Cardinality({q \in Procs : pc[q] = "cr_create"})
                         < MaxReports
                  /\ Begin(p, [NoReq EXCEPT !.op = "create_report",
                                            !.user_id = reporter_id,
                                            !.post_id = post_id,
                                            !.photos = n,
                                            !.location = location,
                                            !.post_status = posts[post_id].status],
                           "cr_create")
    /\ observers' = setup_observers(observers)
    /\ UNCHANGED <<balance, posts, postRows, reports, reportRows, builderVars, history>>

\* ReportBuilder.set_location: None for no location and for an empty one
set_location(location) == IF location \in {"None", ""} THEN "None" ELSE location

\* Report.location is declared nullable=False: the insert of a report without
\* a location violates the NOT NULL constraint of reports.location
location_refused(location) == location = "None"

\* Steps 3 and 4: ReportRepository.create_report commits Report and
\* ReportPhotos, then notifies the observers
CRCreate(p) ==
    /\ pc[p] = "cr_create"
    /\ LoopFree(p)
    /\ \E outcome \in CommitOutcomes :
        IF outcome = "ok" /\ location_refused(set_location(req[p].location))
        THEN /\ Refuse(p, "Error creating report: NOT NULL constraint failed: reports.location",
                      req[p].photos, req[p].photos)
             /\ UNCHANGED <<reports, reportRows>>
        ELSE IF outcome = "ok"
        THEN \E outcomes \in [1..Len(observers) -> ObserverOutcomes] :
             LET report_id == Len(reports) + 1
                 notified == notify_report_created(observers, outcomes) IN
             /\ reports' = Append(reports, [post_id |-> req[p].post_id,
                                            reporter_id |-> req[p].user_id,
                                            location |-> set_location(req[p].location),
                                            status |-> "pending"])
             /\ report_photos' = report_photos \o Rows(req[p].photos, report_id)
             /\ invoked' = notified.invoked
             /\ notifications' = notifications \o
                    notification_rows(observers, outcomes, notified.invoked,
                                      req[p].post_id, report_id)
             /\ Respond(p, IF notified.raised THEN "Error creating report" ELSE "ok")
        ELSE /\ Refuse(p, "Error creating report", req[p].photos, req[p].photos)
             /\ UNCHANGED <<reports, reportRows>>
    /\ UNCHANGED <<balance, posts, postRows, observers, builderVars, history>>

\* ------------------------- ReportService.reject_report / reward_report
\* report_exists, then ReportRepository.update_report_status
SetReportStatus(p, op, status, failed, error) ==
    /\ Rest(p)
    /\ \E report_id \in ReportIds :
        LET r == [NoReq EXCEPT !.op = op, !.report_id = report_id] IN
        IF report_id > Len(reports)
        THEN /\ AnswerAtOnce(p, "Report not found", r)
             /\ UNCHANGED reports
        ELSE \E outcome \in Outcomes :
             /\ reports' = update_report_status(reports, report_id, status, outcome)
             /\ AnswerAtOnce(p, CASE outcome = "ok" -> "ok"
                                   [] outcome = "none" -> failed
                                   [] OTHER -> error, r)
    /\ observers' = setup_observers(observers)
    /\ UNCHANGED <<balance, posts, postRows, reportRows, builderVars, history>>

RejectReport(p) ==
    SetReportStatus(p, "reject_report", "rejected",
                    "Failed to reject report", "Error rejecting report")

RewardReport(p) ==
    SetReportStatus(p, "reward_report", "rewarded",
                    "Failed to reward report", "Error rewarding report")

\* ----------------------- RewardProcessFacade.execute_reward_process
\* a different order of the writes: post, balance, report
SettleNextPostFirst(label, reward_amount) ==
    CASE label = "load" -> "st_post"
      [] label = "st_post" -> IF reward_amount > 0 THEN "st_balance" ELSE "st_report"
      [] label = "st_balance" -> "st_report"
      [] OTHER -> "return"

\* the order of the writes: balance (only for a positive reward), post, report
SettleNext(label, reward_amount) ==
    CASE label = "load" -> IF reward_amount > 0 THEN "st_balance" ELSE "st_post"
      [] label = "st_balance" -> "st_post"
      [] label = "st_post" -> "st_report"
      [] OTHER -> "return"

\* the reward written over the balance instead of added to it
NewReporterBalanceOverwrite(reporter_balance, reward_amount) == reward_amount

\* new_balance = reporter.balance + reward_amount
NewReporterBalance(reporter_balance, reward_amount) == reporter_balance + reward_amount

\* the points to transfer: post.rewards[0].amount if there is a reward of
\* more than 0 points, and no transfer otherwise
TransferAmount(rs) == IF rs # <<>> /\ rs[1].amount > 0 THEN rs[1].amount ELSE 0

\* after a write that succeeded: the next write, or the response
Proceed(p, label) ==
    LET next == SettleNext(label, req[p].amount) IN
    IF next = "return"
    THEN /\ Respond(p, "ok")
         /\ okCount' = [okCount EXCEPT ![req[p].report_id] = @ + 1]
    ELSE /\ pc' = [pc EXCEPT ![p] = next]
         /\ result' = NoResult
         /\ Quiet
         /\ UNCHANGED <<req, okCount>>

\* get_report_by_id (joined with its reporter and post), get_post_by_id
SettleLoad(p) ==
    /\ Rest(p)
    /\ \E report_id \in ReportIds :
        IF report_id > Len(reports)
        THEN /\ Respond(p, "Report not found")
             /\ UNCHANGED calls
        ELSE LET report == reports[report_id]
                 post == posts[report.post_id]
                 reward_amount == TransferAmount(post_rewards(rewards, report.post_id)) IN
             /\ calls[report_id] < MaxSettleCalls
             /\ balance[report.reporter_id] + reward_amount <= MaxBalance
             /\ calls' = [calls EXCEPT ![report_id] = @ + 1]
             /\ Begin(p, [NoReq EXCEPT !.op = "execute_reward_process",
                                       !.user_id = report.reporter_id,
                                       !.post_id = report.post_id,
                                       !.report_id = report_id,
                                       !.amount = reward_amount,
                                       !.balance = balance[report.reporter_id],
                                       !.status = report.status,
                                       !.post_status = post.status],
                      SettleNext("load", reward_amount))
    /\ observers' = setup_observers(observers)
    /\ UNCHANGED <<balance, posts, postRows, reports, reportRows, builderVars,
                   okCount, paid>>

\* update_user_balance(report.reporter_id, new_balance)
SettleBalance(p) ==
    /\ pc[p] = "st_balance"
    /\ \E outcome \in Outcomes :
        LET new_balance == NewReporterBalance(req[p].balance, req[p].amount) IN
        /\ balance' = update_user_balance(balance, req[p].user_id, new_balance, outcome)
        /\ IF outcome = "ok"
           THEN /\ paid' = [paid EXCEPT ![req[p].report_id] = @ + req[p].amount]
                /\ Proceed(p, "st_balance")
           ELSE /\ Respond(p, IF outcome = "none" THEN "Failed to update reporter balance"
                           ELSE "Error processing reward")
                /\ UNCHANGED <<paid, okCount>>
    /\ UNCHANGED <<posts, postRows, reports, reportRows, observers, builderVars, calls>>

\* post_repo.mark_post_as_found(report.post_id)
SettlePost(p) ==
    /\ pc[p] = "st_post"
    /\ \E outcome \in Outcomes :
        /\ posts' = update_post_status(posts, req[p].post_id, "found", outcome)
        /\ IF outcome = "ok"
           THEN Proceed(p, "st_post")
           ELSE /\ Respond(p, IF outcome = "none" THEN "Failed to mark post as found"
                           ELSE "Error processing reward")
                /\ UNCHANGED okCount
    /\ UNCHANGED <<balance, postRows, reports, reportRows, observers, builderVars,
                   calls, paid>>

\* the reward of the post is marked completed along with the report
SettleReportCompletesReward(p) ==
    /\ pc[p] = "st_report"
    /\ \E outcome \in Outcomes :
        /\ reports' = update_report_status(reports, req[p].report_id, "rewarded", outcome)
        /\ IF outcome = "ok"
           THEN Proceed(p, "st_report")
           ELSE /\ Respond(p, IF outcome = "none" THEN "Failed to reward report"
                           ELSE "Error processing reward")
                /\ UNCHANGED okCount
    /\ rewards' = IF reports'[req[p].report_id].status = "rewarded"
                  THEN [i \in 1..Len(rewards) |->
                           IF rewards[i].post_id = req[p].post_id
                           THEN [rewards[i] EXCEPT !.status = "completed"]
                           ELSE rewards[i]]
                  ELSE rewards
    /\ UNCHANGED <<balance, posts, photos, reportRows, observers, builderVars,
                   calls, paid>>

\* report_repo.reward_report(report_id)
SettleReport(p) ==
    /\ pc[p] = "st_report"
    /\ \E outcome \in Outcomes :
        /\ reports' = update_report_status(reports, req[p].report_id, "rewarded", outcome)
        /\ IF outcome = "ok"
           THEN Proceed(p, "st_report")
           ELSE /\ Respond(p, IF outcome = "none" THEN "Failed to reward report"
                           ELSE "Error processing reward")
                /\ UNCHANGED okCount
    /\ UNCHANGED <<balance, posts, postRows, reportRows, observers, builderVars,
                   calls, paid>>

\* ---------------------- NotificationService.mark_notifications_as_read
\* post_exists, then mark_notifications_as_read_by_post_id: the handler runs
\* to its response without an await
MarkNotificationsAsRead(p) ==
    /\ Rest(p)
    /\ LoopFree(p)
    /\ \E post_id \in PostIds :
        LET r == [NoReq EXCEPT !.op = "mark_notifications_as_read",
                               !.post_id = post_id] IN
        IF ~post_exists(posts, post_id)
        THEN /\ AnswerAtOnce(p, "Post not found", r)
             /\ UNCHANGED notifications
        ELSE \E outcome \in CommitOutcomes :
             IF outcome = "ok"
             THEN LET updated == mark_notifications_as_read_by_post_id(notifications,
                                                                       post_id) IN
                  /\ notifications' = updated.rows
                  /\ Answer(p, "Notifications marked as read successfully")
                  /\ asked' = r
                  /\ cleanup' = NoCleanup
                  /\ updated_count' = updated.rowcount
             ELSE /\ AnswerAtOnce(p, "Error updating notifications", r)
                  /\ UNCHANGED notifications
    /\ UNCHANGED <<balance, posts, postRows, reports, report_photos, invoked,
                   observers, builderVars, history>>

\* ------------------- ReportRepository.__init__ in a thread of the pool
\* _setup_observers up to the check: no NotificationObserver is registered yet
SetupCheck(p) ==
    /\ Rest(p)
    /\ ~notification_observer_exists(observers)
    /\ Begin(p, [NoReq EXCEPT !.op = "_setup_observers"], "setup_add")
    /\ UNCHANGED <<balance, posts, postRows, reports, reportRows, observers,
                   builderVars, history>>

\* _setup_observers after the check: NotificationObserver(self.db), add_observer
SetupAdd(p) ==
    /\ pc[p] = "setup_add"
    /\ observers' = add_observer(observers, NewObserver(observers))
    /\ Respond(p, "none")
    /\ UNCHANGED <<balance, posts, postRows, reports, reportRows,
                   builderVars, history>>

\* --------------------------------------------- PostBuilder used on its own
requestVars == <<balance, posts, postRows, reports, reportRows, observers,
                 pc, req, result, history, lastStep>>

\* set_owner_id
SetOwnerId ==
    /\ \E owner_id \in Users :
        /\ builder' = [builder EXCEPT !.owner_id = owner_id]
        /\ call' = [method |-> "set_owner_id", arg |-> owner_id, raised |-> FALSE]
    /\ UNCHANGED requestVars

\* set_photos: ValueError unless there are 1 to 4 photo paths
SetPhotos ==
    /\ \E n \in BuilderPhotoCounts :
        /\ builder' = IF n < 1 \/ n > 4 THEN builder ELSE [builder EXCEPT !.photos = n]
        /\ call' = [method |-> "set_photos", arg |-> n, raised |-> (n < 1 \/ n > 4)]
    /\ UNCHANGED requestVars

\* set_reward_points
SetRewardPoints ==
    /\ \E points \in BuilderPoints :
        /\ builder' = [builder EXCEPT !.reward_data = set_reward_points(points)]
        /\ call' = [method |-> "set_reward_points", arg |-> points, raised |-> FALSE]
    /\ UNCHANGED requestVars

\* set_status(PostStatus.lost)
SetStatus ==
    /\ builder' = [builder EXCEPT !.status = "lost"]
    /\ call' = [method |-> "set_status", arg |-> 0, raised |-> FALSE]
    /\ UNCHANGED requestVars

\* _validate: ValueError for a missing owner, no photo or no reward data
Invalid(b) == b.owner_id = 0 \/ b.photos = 0 \/ b.reward_data = <<>>

\* build: _validate, then the default status
Build ==
    /\ builder' = IF Invalid(builder) \/ builder.status # "unset" THEN builder
                  ELSE [builder EXCEPT !.status = "lost"]
    /\ call' = [method |-> "build", arg |-> 0, raised |-> Invalid(builder)]
    /\ UNCHANGED requestVars

\* ------------------------------------------------------------ specifications
Step(p) ==
    \/ TopUpRead(p)
    \/ TopUpWrite(p)
    \/ CPCheck(p)
    \/ CPCreate(p)
    \/ CPDebit(p)
    \/ CRCheck(p)
    \/ CRCreate(p)
    \/ RejectReport(p)
    \/ RewardReport(p)
    \/ SettleLoad(p)
    \/ SettleBalance(p)
    \/ SettlePost(p)
    \/ SettleReport(p)

\* requests arrive at any time and their steps interleave
Next == \E p \in Procs : Step(p)

Spec == Init /\ [][Next]_vars

\* one request at a time: each runs to its response before the next arrives
NextSeq == Step(1)

SpecSeq == Init /\ [][NextSeq]_vars

\* one request at a time, the owner's two status requests among them
NextPost == Step(1) \/ MarkPostAsFound(1) \/ ClosePost(1)

SpecPost == Init /\ [][NextPost]_vars

\* top-ups and posts only, one request at a time
NextPay ==
    \/ TopUpRead(1)
    \/ TopUpWrite(1)
    \/ CPCheck(1)
    \/ CPCreate(1)
    \/ CPDebit(1)

SpecPay == Init /\ [][NextPay]_vars

\* posts without a reward and the requests on them, interleaved
StepRace(p) ==
    \/ CPCheck(p)
    \/ CPCreate(p)
    \/ CRCheck(p)
    \/ CRCreate(p)
    \/ MarkPostAsFound(p)
    \/ ClosePost(p)
    \/ SettleLoad(p)
    \/ SettlePost(p)
    \/ SettleReport(p)

NextRace == \E p \in Procs : StepRace(p)

SpecRace == Init /\ [][NextRace]_vars

\* repositories constructed in threads of the pool, and the reports created
\* with the observers they registered
StepObs(p) ==
    \/ SetupCheck(p)
    \/ SetupAdd(p)
    \/ CPCheck(p)
    \/ CPCreate(p)
    \/ CRCheck(p)
    \/ CRCreate(p)

NextObs == \E p \in Procs : StepObs(p)

SpecObs == Init /\ [][NextObs]_vars

\* a database with up to MaxDbPosts lost posts without a reward and up to
\* MaxDbReports reports on them, each report with at most one notification
DbPosts ==
    UNION {[1..n -> [owner_id : Users, status : {"lost"}]] : n \in 0..MaxDbPosts}
DbReports(ps) ==
    UNION {[1..n -> [post_id : 1..Len(ps), reporter_id : Users,
                     location : {"somewhere"},
                     status : {"pending", "rewarded", "rejected"}]] :
           n \in 0..MaxDbReports}
RECURSIVE DbNotifications(_, _)
DbNotifications(rs, from) ==
    IF from > Len(rs) THEN {<<>>}
    ELSE LET rest == DbNotifications(rs, from + 1) IN
         rest \cup
         {<<[post_id |-> rs[from].post_id, report_id |-> from, is_read |-> b]>> \o ns :
              b \in BOOLEAN, ns \in rest}

InitDb ==
    /\ balance = [u \in Users |-> 0]
    /\ posts \in DbPosts
    /\ rewards = [i \in 1..Len(posts) |-> [post_id |-> i, amount |-> 0,
                                           status |-> "pending"]]
    /\ photos = [i \in 1..Len(posts) |-> i]
    /\ reports \in DbReports(posts)
    /\ report_photos = [i \in 1..Len(reports) |-> i]
    /\ notifications \in DbNotifications(reports, 1)
    /\ observers = setup_observers(<<>>)
    /\ invoked = <<>>
    /\ builder = NewBuilder
    /\ call = NoCall
    /\ pc = [p \in Procs |-> "idle"]
    /\ req = [p \in Procs |-> NoReq]
    /\ result = NoResult
    /\ calls = [r \in ReportIds |-> 0]
    /\ okCount = [r \in ReportIds |-> 0]
    /\ paid = [r \in ReportIds |-> 0]
    /\ asked = NoAsk
    /\ cleanup = NoCleanup
    /\ updated_count = NoCount

\* the requests that are answered at once, one at a time, on such a database
NextDb ==
    \/ MarkPostAsFound(1)
    \/ ClosePost(1)
    \/ RejectReport(1)
    \/ RewardReport(1)
    \/ MarkNotificationsAsRead(1)

SpecDb == InitDb /\ [][NextDb]_vars

\* posts and reports created with any number of photos and any location, and
\* the top-ups that pay for them, one request at a time
NextCreate ==
    \/ TopUpRead(1)
    \/ TopUpWrite(1)
    \/ CPCheckAnyPhotos(1)
    \/ CPCreate(1)
    \/ CPDebit(1)
    \/ CRCheck(1)
    \/ CRCreate(1)

SpecCreate == Init /\ [][NextCreate]_vars

\* the calls on a PostBuilder, in any order
NextBuilder == SetOwnerId \/ SetPhotos \/ SetRewardPoints \/ SetStatus \/ Build

SpecBuilder == Init /\ [][NextBuilder]_vars
\* ------------------------------------------------------------------ claims
Settling(p) == req[p].op = "execute_reward_process"

\* this step gives the response of request p
Responds(p) == pc[p] # "idle" /\ pc'[p] = "idle"

\* C1: after a settlement of a report has succeeded, a second call on the
\* same report fails: it does not return the report, does not credit the
\* reporter again and does not change the post's status again
C1_SecondSettleFails ==
    [][\A p \in Procs :
        (Settling(p) /\ okCount[req[p].report_id] >= 1) =>
            /\ okCount' = okCount
            /\ paid' = paid
            /\ balance' = balance
            /\ posts' = posts]_vars

\* C2: of two concurrent settlements that both loaded the report as pending,
\* at most one succeeds: a call that returns the report finds that no other
\* call has settled it in the meantime
C2_ConcurrentSettleAtMostOne ==
    [][\A p \in Procs :
        (Settling(p) /\ req[p].status = "pending" /\ Responds(p) /\ result'[p] = "ok")
            => okCount[req[p].report_id] = 0]_vars

\* C3: a settlement of a report that is already rejected fails and changes
\* neither the report, nor the post, nor any balance
C3_RejectThenSettleFails ==
    [][\A p \in Procs :
        (Settling(p) /\ req[p].status = "rejected") =>
            /\ reports' = reports
            /\ posts' = posts
            /\ balance' = balance
            /\ result'[p] # "ok"]_vars

\* C4: a report whose status is rewarded or rejected never changes status
C4_ReportStatusTerminal ==
    [][\A r \in 1..Len(reports) :
        reports[r].status # "pending" => reports'[r].status = reports[r].status]_vars

\* C5: a settlement that succeeds on a pending report of a lost post adds the
\* reward amount to the reporter's balance, leaves the post found and the
\* report rewarded, and no step of it changes another user's balance
C5_SettleEffect ==
    [][\A p \in Procs : Settling(p) =>
        /\ \A u \in Users \ {req[p].user_id} : balance'[u] = balance[u]
        /\ (Responds(p) /\ result'[p] = "ok"
              /\ req[p].status = "pending" /\ req[p].post_status = "lost") =>
            /\ balance'[req[p].user_id] = req[p].balance + req[p].amount
            /\ posts'[req[p].post_id].status = "found"
            /\ reports'[req[p].report_id].status = "rewarded"]_vars

C5_Witness ==
    /\ result[1] = "ok"
    /\ Len(reports) >= 1
    /\ okCount[1] = 1
    /\ paid[1] > 0
    /\ reports[1].status = "rewarded"
    /\ posts[reports[1].post_id].status = "found"
    /\ balance[reports[1].reporter_id] > paid[1]

\* C6: a settlement that fails leaves the reporter's balance, the post's
\* status and the report's status as they were before the call
C6_FailedSettleLeavesNoEffect ==
    [][\A p \in Procs :
        (Settling(p) /\ Responds(p) /\ result'[p] # "ok") =>
            /\ balance'[req[p].user_id] = req[p].balance
            /\ posts'[req[p].post_id].status = req[p].post_status
            /\ reports'[req[p].report_id].status = req[p].status]_vars

\* C7: the balance write comes before the post and report writes: when it is
\* due, post and report are as they were loaded, and when it fails with
\* "Failed to update reporter balance" nothing has been written at all
C7_BalanceFailsBeforeStatusWrites ==
    [][\A p \in Procs : Settling(p) =>
        /\ pc[p] = "st_balance" =>
            /\ posts[req[p].post_id].status = req[p].post_status
            /\ reports[req[p].report_id].status = req[p].status
        /\ (Responds(p) /\ result'[p] = "Failed to update reporter balance") =>
            /\ pc[p] = "st_balance"
            /\ balance' = balance
            /\ posts'[req[p].post_id].status = req[p].post_status
            /\ reports'[req[p].report_id].status = req[p].status]_vars

C7_Witness ==
    /\ result[1] = "Failed to update reporter balance"
    /\ Len(reports) >= 1
    /\ calls[1] = 1
    /\ paid[1] = 0
    /\ reports[1].status = "pending"
    /\ posts[reports[1].post_id].status = "lost"
    /\ TransferAmount(post_rewards(rewards, reports[1].post_id)) > 0

\* C8: a settlement of a pending report that fails leaves the report pending,
\* and when the first call succeeds the reporter has been credited the reward
\* amount once over all the attempts
C8_RetrySettlesOnce ==
    [][\A p \in Procs :
        (Settling(p) /\ req[p].status = "pending" /\ Responds(p)) =>
            /\ result'[p] # "ok" => reports'[req[p].report_id].status = "pending"
            /\ (result'[p] = "ok" /\ okCount[req[p].report_id] = 0) =>
                   paid'[req[p].report_id] = req[p].amount]_vars

\* C9: no user's balance is ever negative
C9_BalanceNonNegative == \A u \in Users : balance[u] >= 0

\* C10: no balance update is lost: every committed top-up, debit and credit
\* changes the balance that is in the database by exactly its amount
C10_NoLostUpdate ==
    [][\A p \in Procs :
        /\ (pc[p] = "tu_write" /\ result'[p] = "ok") =>
               balance'[req[p].user_id] = balance[req[p].user_id] + req[p].amount
        /\ (pc[p] = "cp_debit" /\ result'[p] = "ok") =>
               balance'[req[p].user_id] = balance[req[p].user_id] - req[p].amount
        /\ (pc[p] = "st_balance" /\ paid' # paid) =>
               balance'[req[p].user_id] = balance[req[p].user_id] + req[p].amount]_vars

\* C11: a create_post whose reward exceeds the owner's balance is refused: a
\* request goes on to create the post only with a reward that the balance
\* covers, and the step that answers "Insufficient balance" changes no
\* balance and creates no post, photo or reward row
C11_InsufficientBalanceRefused ==
    [][\A p \in Procs :
        /\ (Rest(p) /\ pc'[p] = "cp_create") =>
               req'[p].amount <= balance[req'[p].user_id]
        /\ result'[p] = "Insufficient balance" =>
               /\ balance' = balance
               /\ posts' = posts
               /\ photos' = photos
               /\ rewards' = rewards]_vars

C11_Witness ==
    /\ result[1] = "Insufficient balance"
    /\ posts = <<>>
    /\ photos = <<>>
    /\ rewards = <<>>
    /\ \E u \in Users : balance[u] > 0 /\ balance[u] < MaxReward

\* C12: a create_post that succeeds with a reward of p points takes exactly p
\* points from the owner's balance in one write (none for p = 0), and no
\* step of the request changes another user's balance
C12_DebitOnce ==
    [][\A p \in Procs :
        /\ (Rest(p) /\ pc'[p] = "cp_create") => balance' = balance
        /\ req[p].op = "create_post" =>
            /\ \A u \in Users \ {req[p].user_id} : balance'[u] = balance[u]
            /\ pc[p] = "cp_create" =>
                /\ balance' = balance
                /\ result'[p] = "ok" => req[p].amount = 0
            /\ (pc[p] = "cp_debit" /\ result'[p] = "ok") =>
                balance'[req[p].user_id] = balance[req[p].user_id] - req[p].amount]_vars

C12_Witness ==
    /\ result[1] = "ok"
    /\ Len(posts) = 1
    /\ reports = <<>>
    /\ rewards[1].amount = MaxReward
    /\ \A u \in Users : balance[u] = 0

C15_PostStatusOneWay ==
    [][\A post_id \in 1..Len(posts) :
        posts[post_id].status # "lost" =>
            posts'[post_id].status = posts[post_id].status]_vars

\* C16: a create_report against a post that is found or closed is refused: a
\* request goes on to create the report only for a post it read as lost, and
\* the step that answers "Post not active" creates no report, report photo
\* or notification
C16_InactivePostRefused ==
    [][\A p \in Procs :
        /\ (Rest(p) /\ pc'[p] = "cr_create") =>
               posts[req'[p].post_id].status = "lost"
        /\ result'[p] = "Post not active" =>
               /\ \E post_id \in 1..Len(posts) : posts[post_id].status \in {"found", "closed"}
               /\ reports' = reports
               /\ report_photos' = report_photos
               /\ notifications' = notifications]_vars

C16_Witness ==
    /\ result[1] = "Post not active"
    /\ Len(posts) = 1
    /\ posts[1].status = "found"
    /\ reports = <<>>
    /\ report_photos = <<>>
    /\ notifications = <<>>

\* C17: under any interleaving, no report is committed for a post whose
\* status is found or closed at the time of the commit
C17_NoReportAfterPostInactive ==
    [][\A p \in Procs :
        (pc[p] = "cr_create" /\ Responds(p) /\ Len(reports') > Len(reports)) =>
            posts[req[p].post_id].status = "lost"]_vars

\* C18: whatever happens in the observers, the create_report that committed
\* a report answers with the report, and the pending report and its photos
\* are in the database after the step and are never removed later
C18_NotificationFailureIsolated ==
    [][/\ Len(reports') >= Len(reports)
       /\ Len(report_photos') >= Len(report_photos)
       /\ \A p \in Procs :
            (pc[p] = "cr_create" /\ Responds(p) /\ Len(reports') > Len(reports)) =>
                /\ result'[p] = "ok"
                /\ reports' = Append(reports, [post_id |-> req[p].post_id,
                                               reporter_id |-> req[p].user_id,
                                               location |-> req[p].location,
                                               status |-> "pending"])
                /\ Len(report_photos') = Len(report_photos) + req[p].photos]_vars

C18_Witness ==
    /\ \E p \in Procs : result[p] = "ok"
    /\ Len(reports) = 1
    /\ reports[1].status = "pending"
    /\ report_photos = <<1>>
    /\ Len(invoked) >= 1
    /\ notifications = <<>>

\* C19: notify_report_created calls every registered observer once, in the
\* order of registration, whichever of them raise, and no exception of an
\* observer reaches the caller
C19_EveryObserverInvokedOnce ==
    [][\A p \in Procs :
        (pc[p] = "cr_create" /\ Responds(p) /\ Len(reports') > Len(reports)) =>
            /\ invoked' = [i \in 1..Len(observers) |-> observers[i].id]
            /\ result'[p] # "Error creating report"]_vars

C19_Witness ==
    /\ Len(observers) = 2
    /\ invoked = <<observers[1].id, observers[2].id>>
    /\ observers[1].id # observers[2].id
    /\ Len(reports) = 1
    /\ notifications = <<>>

\* C20: the registry holds at most one observer of each kind, and no report
\* has more than one notification
C20_OneObserverPerKind ==
    /\ \A i, j \in 1..Len(observers) :
           observers[i].kind = observers[j].kind => i = j
    /\ \A report_id \in 1..Len(reports) :
           Cardinality({i \in 1..Len(notifications) :
                            notifications[i].report_id = report_id}) <= 1

\* some request is given the response `detail` by this step
Answered(detail) == \E p \in Procs : result'[p] = detail

\* the unread notifications of a post
Unread(ns, post_id) ==
    {i \in 1..Len(ns) : ns[i].post_id = post_id /\ ~ns[i].is_read}

\* C21: mark_notifications_as_read on an existing post sets is_read on
\* exactly the unread notifications of that post, answers with their number
\* and leaves the notifications of other posts as they are; the same call
\* made again at once answers 0 and changes nothing; for a post that does
\* not exist the answer is "Post not found" and nothing changes
C21_MarkReadForPost ==
    [][asked'.op = "mark_notifications_as_read" =>
        LET post_id == asked'.post_id
            unread == Unread(notifications, post_id)
            marked == Answered("Notifications marked as read successfully") IN
        /\ <<balance, posts, rewards, photos, reports, report_photos>>' =
               <<balance, posts, rewards, photos, reports, report_photos>>
        /\ IF post_id \in 1..Len(posts)
           THEN \/ /\ marked
                   /\ updated_count' = Cardinality(unread)
                   /\ Len(notifications') = Len(notifications)
                   /\ \A i \in 1..Len(notifications) :
                          notifications'[i] =
                              IF i \in unread
                              THEN [notifications[i] EXCEPT !.is_read = TRUE]
                              ELSE notifications[i]
                   /\ Unread(notifications', post_id) = {}
                \/ /\ Answered("Error updating notifications")
                   /\ updated_count' = NoCount
                   /\ notifications' = notifications
           ELSE /\ Answered("Post not found")
                /\ updated_count' = NoCount
                /\ notifications' = notifications
        /\ (marked /\ asked = asked' /\ updated_count # NoCount) =>
               /\ updated_count' = 0
               /\ notifications' = notifications]_vars

C21_Witness ==
    /\ asked.op = "mark_notifications_as_read"
    /\ updated_count = 1
    /\ Len(notifications) = 2
    /\ \E i, j \in 1..Len(notifications) :
           /\ notifications[i].post_id = asked.post_id
           /\ notifications[i].is_read
           /\ notifications[j].post_id # asked.post_id
           /\ ~notifications[j].is_read

\* C22: reject_report changes nothing but the status of the report it is
\* asked for, which becomes rejected when the call succeeds: the balances,
\* the posts, the rewards, the notifications, the photos and every other
\* report stay as they are
C22_RejectChangesOnlyTheReport ==
    [][asked'.op = "reject_report" =>
        LET report_id == asked'.report_id IN
        /\ <<balance, posts, rewards, photos, report_photos, notifications>>' =
               <<balance, posts, rewards, photos, report_photos, notifications>>
        /\ Len(reports') = Len(reports)
        /\ \A r \in 1..Len(reports) : r # report_id => reports'[r] = reports[r]
        /\ IF report_id \in 1..Len(reports)
           THEN /\ reports'[report_id] =
                       [reports[report_id] EXCEPT !.status = reports'[report_id].status]
                /\ IF Answered("ok")
                   THEN reports'[report_id].status = "rejected"
                   ELSE reports' = reports
           ELSE /\ Answered("Report not found")
                /\ reports' = reports]_vars

C22_Witness ==
    /\ asked.op = "reject_report"
    /\ result[1] = "ok"
    /\ Len(posts) = 2
    /\ Len(reports) = 2
    /\ reports[asked.report_id].status = "rejected"
    /\ \E r \in 1..Len(reports) :
           /\ r # asked.report_id
           /\ reports[r].post_id = reports[asked.report_id].post_id
           /\ reports[r].status = "pending"
    /\ Len(notifications) = 2

\* C23: a create_post or create_report that fails after it saved photo files
\* has deleted every file it saved, whichever step failed
C23_FilesDeletedOnFailure == cleanup.deleted = cleanup.saved

\* the photo rows and the reward rows of a post
PhotosOf(ph, post_id) == {i \in 1..Len(ph) : ph[i] = post_id}
RewardsOf(rw, post_id) == {i \in 1..Len(rw) : rw[i].post_id = post_id}

\* C24: a post is stored all or nothing: the step of create_post that writes
\* to the database adds the post, its 1 to 4 photos and its one reward
\* together, or answers with an error and adds no row at all; no other step
\* adds one of these rows, so every post has 1 to 4 photos and one reward
C24_PostAllOrNothing ==
    [][/\ \A p \in Procs : (pc[p] = "cp_create" /\ pc'[p] # "cp_create") =>
            \/ /\ posts' = Append(posts, [owner_id |-> req[p].user_id, status |-> "lost"])
               /\ photos' = photos \o [i \in 1..req[p].photos |-> Len(posts) + 1]
               /\ req[p].photos \in 1..4
               /\ rewards' = Append(rewards, [post_id |-> Len(posts) + 1,
                                              amount |-> req[p].amount,
                                              status |-> "pending"])
            \/ /\ result'[p] = "Error creating post"
               /\ <<posts, photos, rewards>>' = <<posts, photos, rewards>>
       /\ (\A p \in Procs : ~(pc[p] = "cp_create" /\ pc'[p] # "cp_create")) =>
              /\ Len(posts') = Len(posts)
              /\ photos' = photos
              /\ rewards' = rewards
       /\ \A post_id \in 1..Len(posts') :
              /\ Cardinality(PhotosOf(photos', post_id)) \in 1..4
              /\ Cardinality(RewardsOf(rewards', post_id)) = 1]_vars

C24_Witness ==
    /\ result[1] = "Error creating post"
    /\ cleanup = [saved |-> 4, deleted |-> 4]
    /\ posts = <<>>
    /\ photos = <<>>
    /\ rewards = <<>>
    /\ \E u \in Users : balance[u] > 0

\* C25: create_post accepts 1 to 4 photos only: with no photo it answers
\* that at least 1 is required, with more than 4 that at most 4 are allowed,
\* and such a request saves no file, stores no post, photo or reward and
\* leaves every balance as it is; a request goes on to the database with 1
\* to 4 photos only, and every stored post has 1 to 4 photos
C25_PhotoCountRefused ==
    [][/\ asked'.op = "create_post" =>
            /\ asked'.photos \notin 1..4
            /\ asked'.photos < 1 => Answered("At least 1 photo is required")
            /\ asked'.photos > 4 => Answered("Maximum 4 photos allowed")
            /\ cleanup' = NoCleanup
            /\ <<balance, posts, photos, rewards, reports, report_photos, notifications>>' =
                   <<balance, posts, photos, rewards, reports, report_photos, notifications>>
       /\ \A p \in Procs :
            /\ (Rest(p) /\ pc'[p] = "cp_create") => req'[p].photos \in 1..4
            /\ (Answered("At least 1 photo is required")
                   \/ Answered("Maximum 4 photos allowed")) =>
                   asked'.op = "create_post"
       /\ \A post_id \in 1..Len(posts') :
              Cardinality(PhotosOf(photos', post_id)) \in 1..4]_vars

C25_Witness ==
    /\ asked.op = "create_post"
    /\ asked.photos = 5
    /\ result[1] = "Maximum 4 photos allowed"
    /\ asked.amount > 0
    /\ balance[asked.user_id] >= asked.amount
    /\ posts = <<>>
    /\ photos = <<>>
    /\ rewards = <<>>

\* C26: the location of a report is optional: unless the database fails, a
\* create_report without a location on a post it read as lost succeeds and
\* stores a pending report whose location is null
C26_ReportWithoutLocation ==
    [][\A p \in Procs :
        (/\ pc[p] = "cr_create"
         /\ Responds(p)
         /\ req[p].location = "None"
         /\ req[p].post_status = "lost"
         /\ result'[p] # "Error creating report") =>
            /\ result'[p] = "ok"
            /\ reports' = Append(reports, [post_id |-> req[p].post_id,
                                           reporter_id |-> req[p].user_id,
                                           location |-> "None",
                                           status |-> "pending"])]_vars

\* the points credited by the settlements of the reports r, r + 1, ... of a post
RECURSIVE PaidForPost(_, _)
PaidForPost(post_id, r) ==
    IF r > Len(reports) THEN 0
    ELSE (IF reports[r].post_id = post_id THEN paid[r] ELSE 0)
         + PaidForPost(post_id, r + 1)

\* C27: the reward of a post is paid out at most once: whatever settlements
\* are run on the reports of a post, the points credited for them never
\* exceed the amount of the post's reward
C27_RewardPaidAtMostOnce ==
    \A post_id \in 1..Len(posts) :
        \A i \in RewardsOf(rewards, post_id) :
            PaidForPost(post_id, 1) <= rewards[i].amount

\* C28: a reward row is never modified after it is created: no step changes
\* or removes a row of the rewards table, and every reward has the status
\* pending
C28_RewardsNeverModified ==
    [][/\ Len(rewards') >= Len(rewards)
       /\ \A i \in 1..Len(rewards) : rewards'[i] = rewards[i]
       /\ \A i \in 1..Len(rewards') : rewards'[i].status = "pending"]_vars

C28_Witness ==
    /\ result[1] = "ok"
    /\ Len(rewards) = 1
    /\ rewards[1] = [post_id |-> 1, amount |-> MaxReward, status |-> "pending"]
    /\ Len(reports) = 1
    /\ okCount[1] = 1
    /\ paid[1] = MaxReward
    /\ reports[1].status = "rewarded"
    /\ posts[1].status = "found"

\* C29: only the owner changes the status of a post through
\* mark_post_as_found or close_post: a request of another user is answered
\* as forbidden and a request for a post that does not exist as not found,
\* and both change nothing; a request of the owner changes nothing but the
\* status of that post
C29_OnlyOwnerChangesPostStatus ==
    [][asked'.op \in {"mark_post_as_found", "close_post"} =>
        LET post_id == asked'.post_id
            forbidden == IF asked'.op = "close_post"
                         THEN "You can only close your own posts"
                         ELSE "You can only update your own posts"
            status == IF asked'.op = "close_post" THEN "closed" ELSE "found" IN
        /\ <<balance, rewards, photos, reports, report_photos, notifications>>' =
               <<balance, rewards, photos, reports, report_photos, notifications>>
        /\ Len(posts') = Len(posts)
        /\ IF post_id \notin 1..Len(posts)
           THEN /\ Answered("Post not found")
                /\ posts' = posts
           ELSE IF posts[post_id].owner_id # asked'.user_id
           THEN /\ Answered(forbidden)
                /\ posts' = posts
           ELSE /\ ~Answered(forbidden)
                /\ ~Answered("Post not found")
                /\ posts' = IF Answered("ok")
                            THEN [posts EXCEPT ![post_id].status = status]
                            ELSE posts]_vars

C29_Witness ==
    /\ asked.op = "close_post"
    /\ result[1] = "You can only close your own posts"
    /\ Len(posts) = 1
    /\ posts[1].owner_id # asked.user_id
    /\ posts[1].status = "lost"
    /\ Len(reports) = 1
    /\ reports[1].status = "pending"

\* C30: closing a post rejects its pending reports: after a close_post that
\* succeeded no report of that post is pending, and the reports of other
\* posts and the reports that were rewarded or rejected are as they were
C30_ClosingRejectsPendingReports ==
    [][(asked'.op = "close_post" /\ Answered("ok")) =>
        /\ Len(reports') = Len(reports)
        /\ \A r \in 1..Len(reports) :
            IF reports[r].post_id = asked'.post_id /\ reports[r].status = "pending"
            THEN reports'[r].status # "pending"
            ELSE reports'[r] = reports[r]]_vars
====
